---- MODULE Spec2Model ----
(***************************************************************************)
(* Session scheduling with RSVP and conflict detection                     *)
(* (src/src/routes/sessions.js).  The external store is modelled by its    *)
(* tables (sessions, session_invites, group_members, profiles); every      *)
(* route handler is one action, and the respond handler is also given in   *)
(* two steps (conflict read, invite upsert) for the interleaving analysis. *)
(***************************************************************************)
EXTENDS Integers, Sequences, FiniteSets, TLC

(***************************************************************************)
(* Bounds of the model.                                                    *)
(***************************************************************************)
\* number of HTTP requests the server handles in one run
MaxRequests == 2
\* last value of the wall clock
MaxNow == 1
\* create requests in their member loop at one time
MaxCreating == 1

(***************************************************************************)
(* Data.                                                                   *)
(***************************************************************************)
Users == {"u1", "u2", "u3"}
UserOrder == <<"u1", "u3", "u2">>
Groups == {"g1", "g2"}
NoUser == "anon"
NoGroup == "none"
NULL == -1
NaN == -1000

\* Authorization headers: none, a token the verifier rejects with an error
\* (invalid or expired), a token for which it returns no user, or the valid
\* token of a user.
Tokens == {"none", "invalid", "nouser"} \cup Users

\* start_at values of a request body: absent, text that is no date, or a
\* date-time string (wall-clock reading with a UTC offset).
Absent == [kind |-> "absent", wall |-> 0, off |-> 0]
Junk == [kind |-> "junk", wall |-> 0, off |-> 0]
Date(wall, off) == [kind |-> "date", wall |-> wall, off |-> off]
DateStrings == { Date(0, 0), Date(1, 0), Date(2, 1) }
StartAtInputs == {Absent, Junk} \cup DateStrings

\* new Date(x).getTime(): the instant of a date-time string, NaN otherwise
getTime(x) == IF x.kind = "date" THEN x.wall - x.off ELSE NaN

StatusInputs == {"accepted", "declined", "maybe"}

VARIABLES
    now,              \* wall clock (new Date())
    nextId,           \* next id the store assigns to a session row
    sessions,         \* table sessions
    session_invites,  \* table session_invites
    group_members,    \* table group_members
    profiles,         \* table profiles: user id -> has an email address
    inflight,         \* respond requests between conflict read and upsert
    creating,         \* create requests between session insert and response
    group_invitations,\* table group_invitations
    handling,         \* group-invitation requests between read and update
    served,           \* number of requests handled so far
    resp              \* the last request handled and its response

vars == <<now, nextId, sessions, session_invites, group_members, profiles,
          inflight, creating, group_invitations, handling, served, resp>>

(***************************************************************************)
(* Faults of the collaborators (store, verifier, email API) during one     *)
(* request: at most one kind per request, for one member where the call is *)
(* made per member.                                                        *)
(***************************************************************************)
NoFault == [kind |-> "none", target |-> NoUser]
Fault(k, u) == [kind |-> k, target |-> u]

(***************************************************************************)
(* Helpers of the routes.                                                  *)
(***************************************************************************)
\* getUser(req): null without a token; throws when the verifier returns an
\* error, as it does for a token it rejects and when it cannot be reached;
\* data?.user || null when it returns none
getUser(token, fault) ==
    IF token = "none" THEN [user |-> NoUser, threw |-> FALSE]
    ELSE IF token = "invalid" \/ fault.kind = "verifier"
         THEN [user |-> NoUser, threw |-> TRUE]
    ELSE IF token = "nouser" THEN [user |-> NoUser, threw |-> FALSE]
    ELSE [user |-> token, threw |-> FALSE]

\* variant: the lookup is not filtered by group
requireGroupMemberOfAny(group_id, user_id) ==
    \E m \in group_members : m.user_id = user_id

\* requireGroupMember(group_id, user_id)
requireGroupMember(group_id, user_id) ==
    \E m \in group_members : m.group_id = group_id /\ m.user_id = user_id

SameKey(i, sid, uid) == i.session_id = sid /\ i.user_id = uid

\* variant: the upsert adds a row whatever rows the table holds
UpsertAsNewRow(invites, row) == invites \cup {row}

\* .upsert(row) on session_invites, keyed by (session_id, user_id)
Upsert(invites, row) ==
    { i \in invites : ~SameKey(i, row.session_id, row.user_id) } \cup {row}

\* variant: the insert replaces the row that has the key
InsertOverwriting(invites, row) ==
    { i \in invites : ~SameKey(i, row.session_id, row.user_id) } \cup {row}

\* .insert(row) on session_invites: rejected by the store when the key exists
Insert(invites, row) ==
    IF \E i \in invites : SameKey(i, row.session_id, row.user_id)
    THEN invites
    ELSE invites \cup {row}

Invite(sid, uid, status, at) ==
    [session_id |-> sid, user_id |-> uid, status |-> status, responded_at |-> at]

\* variant: the invites are not filtered by status
SessionIdsOfAnyStatus(invites, uid) ==
    { i.session_id : i \in { j \in invites : j.user_id = uid } }

\* session_invites.select("session_id").eq("user_id", u).eq("status", "accepted")
AcceptedSessionIds(invites, uid) ==
    { i.session_id : i \in { j \in invites : j.user_id = uid /\ j.status = "accepted" } }

\* sessions.select(...).in("id", ids)
SessionsIn(sess, ids) == { s \in sess : s.id \in ids }

\* one call of sendEmailSafe
Mail(kind, to, about, ok) == [kind |-> kind, to |-> to, about |-> about, ok |-> ok]

\* what a handler leaves behind: the response and the tables
Outcome(code, sid, sent, sess, invites) ==
    [code |-> code, sid |-> sid, sent |-> sent, sessions |-> sess, invites |-> invites]

Rejected(code) == Outcome(code, 0, <<>>, sessions, session_invites)

(***************************************************************************)
(* POST /groups/:groupId/sessions                                          *)
(***************************************************************************)
\* variant: a start at the instant of the request counts as past
InPastOrNow(starts, clock) == starts <= clock

\* starts < new Date()
InPast(starts, clock) == starts < clock

\* variant: any accepted invite of the member counts as a conflict
CreateHasConflictAnyAccepted(sess, invites, uid, starts, failed) ==
    ~failed /\ AcceptedSessionIds(invites, uid) # {}

\* create: hasConflict of one member (the errors of both lookups are ignored)
CreateHasConflict(sess, invites, uid, starts, failed) ==
    IF failed THEN FALSE
    ELSE LET ids == AcceptedSessionIds(invites, uid) IN
         /\ ids # {}
         /\ \E c \in SessionsIn(sess, ids) : getTime(c.start_at) = starts

\* variant: an invitation whose dispatch failed is dispatched once more
ProcessMemberWithRetry(m, s, sess, fault, acc) ==
    LET hit(k) == fault.kind = k /\ fault.target = m IN
    IF ~profiles[m] THEN acc
    ELSE IF CreateHasConflict(sess, acc.invites, m, getTime(s.start_at),
                              hit("conflict_select"))
    THEN IF profiles[s.creator_id] /\ ~hit("creator_select")
         THEN [acc EXCEPT !.sent =
                 Append(@, Mail("conflict", s.creator_id, m, ~hit("email")))]
         ELSE acc
    ELSE [invites |-> IF hit("invite_insert") THEN acc.invites
                      ELSE Insert(acc.invites, Invite(s.id, m, "pending", NULL)),
          sent |-> IF hit("email")
                   THEN acc.sent \o << Mail("invitation", m, m, FALSE),
                                       Mail("invitation", m, m, TRUE) >>
                   ELSE Append(acc.sent, Mail("invitation", m, m, TRUE))]

\* create: the body of the member loop for one member; acc = [invites, sent]
ProcessMember(m, s, sess, fault, acc) ==
    LET hit(k) == fault.kind = k /\ fault.target = m IN
    IF ~profiles[m] THEN acc
    ELSE IF CreateHasConflict(sess, acc.invites, m, getTime(s.start_at),
                              hit("conflict_select"))
    THEN IF profiles[s.creator_id] /\ ~hit("creator_select")
         THEN [acc EXCEPT !.sent =
                 Append(@, Mail("conflict", s.creator_id, m, ~hit("email")))]
         ELSE acc
    ELSE [invites |-> IF hit("invite_insert") THEN acc.invites
                      ELSE Insert(acc.invites, Invite(s.id, m, "pending", NULL)),
          sent |-> Append(acc.sent, Mail("invitation", m, m, ~hit("email")))]

\* variant: the loop ends at the first member whose email fails
RECURSIVE FanOutUntilFailure(_, _, _, _, _)
FanOutUntilFailure(members, s, sess, fault, acc) ==
    IF members = <<>> THEN acc
    ELSE IF fault.kind = "email" /\ fault.target = Head(members)
    THEN ProcessMember(Head(members), s, sess, fault, acc)
    ELSE FanOutUntilFailure(Tail(members), s, sess, fault,
                            ProcessMember(Head(members), s, sess, fault, acc))

RECURSIVE FanOut(_, _, _, _, _)
FanOut(members, s, sess, fault, acc) ==
    IF members = <<>> THEN acc
    ELSE FanOut(Tail(members), s, sess, fault,
                ProcessMember(Head(members), s, sess, fault, acc))

\* variant: the members query is not filtered by group
OtherMembersOfAnyGroup(group_id, creator) ==
    SelectSeq(UserOrder, LAMBDA u : u # creator)

\* group_members .eq("group_id", g).neq("user_id", creator), in store order
OtherMembers(group_id, creator) ==
    SelectSeq(UserOrder,
              LAMBDA u : u # creator /\ requireGroupMember(group_id, u))

\* variant: a failure of the members query fails the request
CreateOutcomeMembersRequired(token, group_id, start_at, fault) ==
    LET auth == getUser(token, fault)
        user == auth.user
        s == [id |-> nextId, group_id |-> group_id, creator_id |-> user,
              start_at |-> start_at]
        members == OtherMembers(group_id, user)
        out == FanOut(members, s, sessions \cup {s}, fault,
                      [invites |-> session_invites, sent |-> <<>>])
    IN
    IF auth.threw THEN Rejected(500)
    ELSE IF user = NoUser THEN Rejected(401)
    ELSE IF fault.kind = "gate" THEN Rejected(500)
    ELSE IF ~requireGroupMember(group_id, user) THEN Rejected(403)
    ELSE IF start_at.kind = "absent" THEN Rejected(400)
    ELSE IF getTime(start_at) = NaN THEN Rejected(400)
    ELSE IF InPast(getTime(start_at), now) THEN Rejected(400)
    ELSE IF fault.kind = "session_insert" THEN Rejected(500)
    ELSE IF fault.kind = "members_select"
         THEN Outcome(500, 0, <<>>, sessions \cup {s}, session_invites)
    ELSE IF members = <<>>
         THEN Outcome(200, s.id, <<>>, sessions \cup {s}, session_invites)
    ELSE Outcome(200, s.id, out.sent, sessions \cup {s}, out.invites)

CreateOutcome(token, group_id, start_at, fault) ==
    LET auth == getUser(token, fault)
        user == auth.user
        s == [id |-> nextId, group_id |-> group_id, creator_id |-> user,
              start_at |-> start_at]
        members == OtherMembers(group_id, user)
        out == FanOut(members, s, sessions \cup {s}, fault,
                      [invites |-> session_invites, sent |-> <<>>])
    IN
    IF auth.threw THEN Rejected(500)
    ELSE IF user = NoUser THEN Rejected(401)
    ELSE IF fault.kind = "gate" THEN Rejected(500)
    ELSE IF ~requireGroupMember(group_id, user) THEN Rejected(403)
    ELSE IF start_at.kind = "absent" THEN Rejected(400)
    ELSE IF getTime(start_at) = NaN THEN Rejected(400)
    ELSE IF InPast(getTime(start_at), now) THEN Rejected(400)
    ELSE IF fault.kind = "session_insert" THEN Rejected(500)
    ELSE IF fault.kind = "members_select" \/ members = <<>>
         THEN Outcome(200, s.id, <<>>, sessions \cup {s}, session_invites)
    ELSE Outcome(200, s.id, out.sent, sessions \cup {s}, out.invites)

\* the last response: route, caller, status code, the session it is about
\* (created or named), and the emails dispatched while handling the request
Answer(op, user, code, sid, sent) ==
    [op |-> op, user |-> user, code |-> code, sid |-> sid, sent |-> sent]

\* a request is handled: the tables and the response change as the handler says
Handle(op, user, sid, o) ==
    /\ served < MaxRequests
    /\ served' = served + 1
    /\ sessions' = o.sessions
    /\ session_invites' = o.invites
    /\ nextId' = IF op = "create" /\ o.sid # 0 THEN nextId + 1 ELSE nextId
    /\ resp' = Answer(op, user, o.code, sid, o.sent)
    /\ UNCHANGED <<now, group_members, profiles, inflight, creating,
                   group_invitations, handling>>

Create(token, group_id, start_at, fault) ==
    Handle("create", getUser(token, fault).user,
           CreateOutcome(token, group_id, start_at, fault).sid,
           CreateOutcome(token, group_id, start_at, fault))

\* variant: the session row is not written before the member loop
InsertSessionDeferred(sess, s) == sess

\* sessions.insert([...]).select("*").single(), awaited before the members query
InsertSession(sess, s) == sess \cup {s}

\* variant: the answer is sent without waiting for the member loop
ReadyToRespondAtOnce(c) == TRUE

\* res.json({ session }) follows the for loop, whose every iteration is awaited
ReadyToRespond(c) == c.members = <<>>

\* the handler in steps: up to the members query. A request that is rejected
\* or finds no other member is answered at once; otherwise the session is
\* stored and the request goes on to the member loop.
CreateBegin(token, group_id, start_at, fault) ==
    LET o == CreateOutcome(token, group_id, start_at, fault)
        user == getUser(token, fault).user
        s == [id |-> nextId, group_id |-> group_id, creator_id |-> user,
              start_at |-> start_at]
        members == OtherMembers(group_id, user)
    IN
    IF o.code # 200 \/ fault.kind = "members_select" \/ members = <<>>
    THEN Handle("create", user, o.sid, o)
    ELSE /\ served < MaxRequests
         /\ Cardinality(creating) < MaxCreating
         /\ served' = served + 1
         /\ sessions' = InsertSession(sessions, s)
         /\ nextId' = nextId + 1
         /\ creating' = creating \cup
                { [s |-> s, members |-> members, sent |-> <<>>, fault |-> fault] }
         /\ UNCHANGED <<now, session_invites, group_members, profiles, inflight,
                        group_invitations, handling, resp>>

\* one iteration of the member loop of a create in progress
CreateMember(c) ==
    LET acc == ProcessMember(Head(c.members), c.s, sessions, c.fault,
                             [invites |-> session_invites, sent |-> c.sent])
    IN
    /\ c \in creating
    /\ c.members # <<>>
    /\ session_invites' = acc.invites
    /\ creating' = (creating \ {c}) \cup
            { [c EXCEPT !.members = Tail(@), !.sent = acc.sent] }
    /\ UNCHANGED <<now, nextId, sessions, group_members, profiles, inflight,
                   group_invitations, handling, served, resp>>

\* the answer of a create in progress
CreateRespond(c) ==
    /\ c \in creating
    /\ ReadyToRespond(c)
    /\ creating' = creating \ {c}
    /\ resp' = Answer("create", c.s.creator_id, 200, c.s.id, c.sent)
    /\ UNCHANGED <<now, nextId, sessions, session_invites, group_members,
                   profiles, inflight, group_invitations, handling, served>>

(***************************************************************************)
(* POST /groups/:groupId/sessions/:sessionId/respond                       *)
(***************************************************************************)
\* .eq("id", sessionId).single(): an error unless exactly one row matches
Single(rows) ==
    IF Cardinality(rows) = 1
    THEN [data |-> CHOOSE r \in rows : TRUE, error |-> FALSE]
    ELSE [data |-> [id |-> 0, group_id |-> NoGroup, creator_id |-> NoUser,
                    start_at |-> Absent],
          error |-> TRUE]

\* variant: the conflict read returns no rows
RespondReadNothing(sess, invites, uid) == {}

\* respond: the sessions of the caller's accepted invites (const conflicts)
RespondRead(sess, invites, uid) == SessionsIn(sess, AcceptedSessionIds(invites, uid))

\* variant: the start_at texts are compared, not the instants they denote
RespondConflictByText(conflicts, session) ==
    \E c \in conflicts : c.start_at = session.start_at

\* variant: the result of the conflict read is not looked at
RespondConflictIgnored(conflicts, session) == FALSE

\* respond: conflicts.find(c => same instant as the session)
RespondConflict(conflicts, session) ==
    \E c \in conflicts : getTime(c.start_at) = getTime(session.start_at)

\* variant: the membership check comes before the validation of the status
RespondCheckGateFirst(token, groupId, sessionId, status, fault) ==
    LET auth == getUser(token, fault)
        user == auth.user
        found == Single({ s \in sessions : s.id = sessionId })
        session == found.data
        conflicts == RespondRead(sessions, session_invites, user)
    IN
    IF auth.threw THEN Rejected(500)
    ELSE IF user = NoUser THEN Rejected(401)
    ELSE IF fault.kind = "gate" THEN Rejected(500)
    ELSE IF ~requireGroupMember(groupId, user) THEN Rejected(403)
    ELSE IF status \notin {"accepted", "declined"} THEN Rejected(400)
    ELSE IF found.error \/ fault.kind = "session_select" THEN Rejected(404)
    ELSE IF status = "accepted" /\ fault.kind = "conflict_select" THEN Rejected(500)
    ELSE IF status = "accepted" /\ RespondConflict(conflicts, session)
         THEN Outcome(409, sessionId,
                      IF profiles[session.creator_id] /\ fault.kind # "creator_select"
                      THEN << Mail("conflict", session.creator_id, user,
                                   fault.kind # "email") >>
                      ELSE <<>>,
                      sessions, session_invites)
    ELSE Outcome(0, sessionId, <<>>, sessions, session_invites)

\* respond up to the conflict check; code 0: the request goes on to the upsert
RespondCheck(token, groupId, sessionId, status, fault) ==
    LET auth == getUser(token, fault)
        user == auth.user
        found == Single({ s \in sessions : s.id = sessionId })
        session == found.data
        conflicts == RespondRead(sessions, session_invites, user)
    IN
    IF auth.threw THEN Rejected(500)
    ELSE IF user = NoUser THEN Rejected(401)
    ELSE IF status \notin {"accepted", "declined"} THEN Rejected(400)
    ELSE IF fault.kind = "gate" THEN Rejected(500)
    ELSE IF ~requireGroupMember(groupId, user) THEN Rejected(403)
    ELSE IF found.error \/ fault.kind = "session_select" THEN Rejected(404)
    ELSE IF status = "accepted" /\ fault.kind = "conflict_select" THEN Rejected(500)
    ELSE IF status = "accepted" /\ RespondConflict(conflicts, session)
         THEN Outcome(409, sessionId,
                      IF profiles[session.creator_id] /\ fault.kind # "creator_select"
                      THEN << Mail("conflict", session.creator_id, user,
                                   fault.kind # "email") >>
                      ELSE <<>>,
                      sessions, session_invites)
    ELSE Outcome(0, sessionId, <<>>, sessions, session_invites)

\* variant: the upsert leaves responded_at out
RespondUpsertWithoutTime(user, sessionId, status, fault) ==
    IF fault.kind = "invite_upsert" THEN Rejected(500)
    ELSE Outcome(200, sessionId, <<>>, sessions,
                 Upsert(session_invites, Invite(sessionId, user, status, NULL)))

\* respond: the upsert of the invite and the answer
RespondUpsert(user, sessionId, status, fault) ==
    IF fault.kind = "invite_upsert" THEN Rejected(500)
    ELSE Outcome(200, sessionId, <<>>, sessions,
                 Upsert(session_invites, Invite(sessionId, user, status, now)))

RespondOutcome(token, groupId, sessionId, status, fault) ==
    LET c == RespondCheck(token, groupId, sessionId, status, fault) IN
    IF c.code # 0 THEN c
    ELSE RespondUpsert(getUser(token, fault).user, sessionId, status, fault)

\* the handler run to completion without another request in between
Respond(token, groupId, sessionId, status, fault) ==
    Handle("respond", getUser(token, fault).user, sessionId,
           RespondOutcome(token, groupId, sessionId, status, fault))

\* the handler in two steps: after the conflict read the request is in flight,
\* holding what it read
RespondBegin(token, groupId, sessionId, status, fault) ==
    LET c == RespondCheck(token, groupId, sessionId, status, fault)
        user == getUser(token, fault).user
    IN
    IF c.code # 0
    THEN Handle("respond", user, sessionId, c)
    ELSE /\ served < MaxRequests
         /\ served' = served + 1
         /\ inflight' = inflight \cup
                { [user |-> user, sid |-> sessionId, status |-> status,
                   conflicts |-> IF status = "accepted"
                                 THEN RespondRead(sessions, session_invites, user)
                                 ELSE {}] }
         /\ UNCHANGED <<now, nextId, sessions, session_invites, group_members,
                        profiles, creating, group_invitations, handling, resp>>

RespondFinish(r, fault) ==
    LET o == RespondUpsert(r.user, r.sid, r.status, fault) IN
    /\ r \in inflight
    /\ inflight' = inflight \ {r}
    /\ session_invites' = o.invites
    /\ resp' = Answer("respond", r.user, o.code, r.sid, o.sent)
    /\ UNCHANGED <<now, nextId, sessions, group_members, profiles, creating,
                   group_invitations, handling, served>>

(***************************************************************************)
(* GET /sessions/:sessionId/accept/:userId and .../decline/:userId         *)
(***************************************************************************)
\* variant: an accept by link is refused when the user holds an accepted
\* invite for a session at the same instant
LinkOutcomeChecked(sessionId, userId, status, fault) ==
    IF fault.kind = "invite_upsert" THEN Rejected(500)
    ELSE IF /\ status = "accepted"
            /\ \E x \in sessions, c \in RespondRead(sessions, session_invites, userId) :
                  x.id = sessionId /\ getTime(c.start_at) = getTime(x.start_at)
    THEN Rejected(409)
    ELSE Outcome(200, sessionId, <<>>, sessions,
                 Upsert(session_invites, Invite(sessionId, userId, status, now)))

\* the upsert of an email link and its answer
LinkOutcome(sessionId, userId, status, fault) ==
    IF fault.kind = "invite_upsert" THEN Rejected(500)
    ELSE Outcome(200, sessionId, <<>>, sessions,
                 Upsert(session_invites, Invite(sessionId, userId, status, now)))

AcceptLink(sessionId, userId, fault) ==
    Handle("accept_link", userId, sessionId,
           LinkOutcome(sessionId, userId, "accepted", fault))

DeclineLink(sessionId, userId, fault) ==
    Handle("decline_link", userId, sessionId,
           LinkOutcome(sessionId, userId, "declined", fault))

(***************************************************************************)
(* DELETE /groups/:groupId/sessions/:sessionId                             *)
(***************************************************************************)
\* variant: the row is deleted before the creator is compared with the caller
DeleteOutcomeThenCheck(token, groupId, sessionId, fault) ==
    LET auth == getUser(token, fault)
        user == auth.user
        found == Single({ s \in sessions : s.id = sessionId })
    IN
    IF auth.threw THEN Rejected(500)
    ELSE IF user = NoUser THEN Rejected(401)
    ELSE IF fault.kind = "gate" THEN Rejected(500)
    ELSE IF ~requireGroupMember(groupId, user) THEN Rejected(403)
    ELSE IF found.error \/ fault.kind = "session_select" THEN Rejected(500)
    ELSE IF fault.kind = "session_delete" THEN Rejected(500)
    ELSE Outcome(IF found.data.creator_id # user THEN 403 ELSE 200, sessionId, <<>>,
                 { s \in sessions : s.id # sessionId }, session_invites)

\* variant: any member of the group may delete
DeleteOutcomeByAnyMember(token, groupId, sessionId, fault) ==
    LET auth == getUser(token, fault)
        user == auth.user
        found == Single({ s \in sessions : s.id = sessionId })
    IN
    IF auth.threw THEN Rejected(500)
    ELSE IF user = NoUser THEN Rejected(401)
    ELSE IF fault.kind = "gate" THEN Rejected(500)
    ELSE IF ~requireGroupMember(groupId, user) THEN Rejected(403)
    ELSE IF found.error \/ fault.kind = "session_select" THEN Rejected(500)
    ELSE IF fault.kind = "session_delete" THEN Rejected(500)
    ELSE Outcome(200, sessionId, <<>>,
                 { s \in sessions : s.id # sessionId }, session_invites)

\* variant: the session row is left in the table
DeleteOutcomeKeepingRow(token, groupId, sessionId, fault) ==
    LET auth == getUser(token, fault)
        user == auth.user
        found == Single({ s \in sessions : s.id = sessionId })
    IN
    IF auth.threw THEN Rejected(500)
    ELSE IF user = NoUser THEN Rejected(401)
    ELSE IF fault.kind = "gate" THEN Rejected(500)
    ELSE IF ~requireGroupMember(groupId, user) THEN Rejected(403)
    ELSE IF found.error \/ fault.kind = "session_select" THEN Rejected(500)
    ELSE IF found.data.creator_id # user THEN Rejected(403)
    ELSE IF fault.kind = "session_delete" THEN Rejected(500)
    ELSE Outcome(200, sessionId, <<>>, sessions, session_invites)

DeleteOutcome(token, groupId, sessionId, fault) ==
    LET auth == getUser(token, fault)
        user == auth.user
        found == Single({ s \in sessions : s.id = sessionId })
    IN
    IF auth.threw THEN Rejected(500)
    ELSE IF user = NoUser THEN Rejected(401)
    ELSE IF fault.kind = "gate" THEN Rejected(500)
    ELSE IF ~requireGroupMember(groupId, user) THEN Rejected(403)
    ELSE IF found.error \/ fault.kind = "session_select" THEN Rejected(500)
    ELSE IF found.data.creator_id # user THEN Rejected(403)
    ELSE IF fault.kind = "session_delete" THEN Rejected(500)
    ELSE Outcome(200, sessionId, <<>>,
                 { s \in sessions : s.id # sessionId }, session_invites)

Delete(token, groupId, sessionId, fault) ==
    Handle("delete", getUser(token, fault).user, sessionId,
           DeleteOutcome(token, groupId, sessionId, fault))

(***************************************************************************)
(* GET /groups/:groupId/sessions                                           *)
(***************************************************************************)
\* .order("start_at", { ascending: true }): by instant, ties by id
Before(a, b) ==
    \/ getTime(a.start_at) < getTime(b.start_at)
    \/ getTime(a.start_at) = getTime(b.start_at) /\ a.id < b.id

RECURSIVE OrderByStartAt(_)
OrderByStartAt(rows) ==
    IF rows = {} THEN <<>>
    ELSE LET first == CHOOSE r \in rows : \A o \in rows \ {r} : Before(r, o)
         IN <<first>> \o OrderByStartAt(rows \ {first})

\* sessions.select("*").eq("group_id", g).order("start_at")
ListSessions(sess, group_id) ==
    OrderByStartAt({ s \in sess : s.group_id = group_id })

ListOutcome(token, group_id, fault) ==
    LET auth == getUser(token, fault) IN
    IF auth.threw THEN Rejected(500)
    ELSE IF auth.user = NoUser THEN Rejected(401)
    ELSE IF fault.kind = "gate" THEN Rejected(500)
    ELSE IF ~requireGroupMember(group_id, auth.user) THEN Rejected(403)
    ELSE IF fault.kind = "session_select" THEN Rejected(500)
    ELSE Outcome(200, 0, ListSessions(sessions, group_id), sessions, session_invites)

List(token, group_id, fault) ==
    Handle("list", getUser(token, fault).user, 0,
           ListOutcome(token, group_id, fault))

(***************************************************************************)
(* The clock.                                                              *)
(***************************************************************************)
Tick ==
    /\ now < MaxNow
    /\ now' = now + 1
    /\ UNCHANGED <<nextId, sessions, session_invites, group_members, profiles,
                   inflight, creating, group_invitations, handling, served, resp>>

(***************************************************************************)
(* Initial states.  Group g1 has three members, g2 one; u3's profile has   *)
(* no email address.  The schedule is empty, or holds the two sessions at  *)
(* one instant that u1 and then u3 created in g1, with their invites.      *)
(***************************************************************************)
EmptySchedule ==
    /\ nextId = 1
    /\ sessions = {}
    /\ session_invites = {}

SeededSchedule ==
    /\ nextId = 3
    /\ sessions = { [id |-> 1, group_id |-> "g1", creator_id |-> "u1",
                     start_at |-> Date(1, 0)],
                    [id |-> 2, group_id |-> "g1", creator_id |-> "u3",
                     start_at |-> Date(2, 1)] }
    /\ session_invites = { Invite(1, "u2", "pending", NULL),
                           Invite(2, "u1", "pending", NULL),
                           Invite(2, "u2", "pending", NULL) }

\* two invitations to g2 sent by its owner, not answered yet
SeededInvitations ==
    { [id |-> 1, group_id |-> "g2", recipient_id |-> "u1", status |-> "pending"],
      [id |-> 2, group_id |-> "g2", recipient_id |-> "u2", status |-> "pending"] }

Init ==
    /\ now = 0
    /\ group_members = { [group_id |-> "g1", user_id |-> "u1"],
                         [group_id |-> "g1", user_id |-> "u2"],
                         [group_id |-> "g1", user_id |-> "u3"],
                         [group_id |-> "g2", user_id |-> "u3"] }
    /\ profiles = [u \in Users |-> u # "u3"]
    /\ inflight = {}
    /\ creating = {}
    /\ group_invitations = SeededInvitations
    /\ handling = {}
    /\ served = 0
    /\ resp = Answer("none", NoUser, 0, 0, <<>>)
    /\ (EmptySchedule \/ SeededSchedule)

(***************************************************************************)
(* Requests.                                                               *)
(***************************************************************************)
\* The faults a request can meet: one per call the handler makes to a
\* collaborator on the path the request takes.
Faults(kinds) == {NoFault} \cup { Fault(k, NoUser) : k \in kinds }

MemberFaults(kinds, members) == { Fault(k, m) : k \in kinds, m \in members }

Emailable(members) == { members[n] : n \in { k \in DOMAIN members : profiles[members[k]] } }

CreateFaults(token, group_id, start_at) ==
    IF token \notin Users THEN {NoFault}
    ELSE IF ~requireGroupMember(group_id, token) THEN Faults({"verifier", "gate"})
    ELSE IF getTime(start_at) = NaN \/ InPast(getTime(start_at), now)
         THEN Faults({"verifier", "gate"})
    ELSE Faults({"verifier", "gate", "session_insert", "members_select"})
         \cup MemberFaults({"conflict_select", "creator_select", "email",
                            "invite_insert"},
                           Emailable(OtherMembers(group_id, token)))

RespondFaults(token, groupId, sessionId, status) ==
    IF token \notin Users THEN {NoFault}
    ELSE IF status \notin {"accepted", "declined"} THEN Faults({"verifier"})
    ELSE IF ~requireGroupMember(groupId, token) THEN Faults({"verifier", "gate"})
    ELSE IF ~\E s \in sessions : s.id = sessionId
         THEN Faults({"verifier", "gate", "session_select"})
    ELSE IF status = "declined"
         THEN Faults({"verifier", "gate", "session_select", "invite_upsert"})
    ELSE Faults({"verifier", "gate", "session_select", "conflict_select",
                 "creator_select", "email", "invite_upsert"})

DeleteFaults(token, groupId, sessionId) ==
    IF token \notin Users THEN {NoFault}
    ELSE IF ~requireGroupMember(groupId, token) THEN Faults({"verifier", "gate"})
    ELSE Faults({"verifier", "gate", "session_select", "session_delete"})

ListFaults(token, group_id) ==
    IF token \notin Users THEN {NoFault}
    ELSE IF ~requireGroupMember(group_id, token) THEN Faults({"verifier", "gate"})
    ELSE Faults({"verifier", "gate", "session_select"})

UpsertFaults == Faults({"invite_upsert"})

\* session ids a bearer request may name: those assigned so far and the next
SessionIds == 1..nextId

\* session ids of email links: the sessions created so far, deleted or not
LinkSessionIds == 1..(nextId - 1)

CreateStep ==
    \E token \in Tokens, group_id \in Groups, start_at \in StartAtInputs :
        \E fault \in CreateFaults(token, group_id, start_at) :
            Create(token, group_id, start_at, fault)

RespondStep ==
    \E token \in Tokens, groupId \in Groups, sessionId \in SessionIds,
       status \in StatusInputs :
        \E fault \in RespondFaults(token, groupId, sessionId, status) :
            Respond(token, groupId, sessionId, status, fault)

RespondBeginStep ==
    \E token \in Tokens, groupId \in Groups, sessionId \in SessionIds,
       status \in StatusInputs :
        \E fault \in RespondFaults(token, groupId, sessionId, status)
                      \ {Fault("invite_upsert", NoUser)} :
            RespondBegin(token, groupId, sessionId, status, fault)

RespondFinishStep ==
    \E r \in inflight, fault \in UpsertFaults : RespondFinish(r, fault)

AcceptLinkStep ==
    \E sessionId \in LinkSessionIds, userId \in Users, fault \in UpsertFaults :
        AcceptLink(sessionId, userId, fault)

DeclineLinkStep ==
    \E sessionId \in LinkSessionIds, userId \in Users, fault \in UpsertFaults :
        DeclineLink(sessionId, userId, fault)

DeleteStep ==
    \E token \in Tokens, groupId \in Groups, sessionId \in SessionIds :
        \E fault \in DeleteFaults(token, groupId, sessionId) :
            Delete(token, groupId, sessionId, fault)

ListStep ==
    \E token \in Tokens, group_id \in Groups :
        \E fault \in ListFaults(token, group_id) :
            List(token, group_id, fault)

\* every route, each request run to completion
Next ==
    \/ Tick
    \/ CreateStep
    \/ RespondStep
    \/ AcceptLinkStep
    \/ DeclineLinkStep
    \/ DeleteStep
    \/ ListStep

Spec == Init /\ [][Next]_vars

\* the bearer-protected routes only (no email-link RSVP), run to completion
NextAuth ==
    \/ Tick
    \/ CreateStep
    \/ RespondStep
    \/ DeleteStep
    \/ ListStep

SpecAuth == Init /\ [][NextAuth]_vars

\* the bearer-protected routes, respond in two steps
NextRace ==
    \/ Tick
    \/ CreateStep
    \/ RespondBeginStep
    \/ RespondFinishStep
    \/ DeleteStep
    \/ ListStep

SpecRace == Init /\ [][NextRace]_vars

CreateBeginStep ==
    \E token \in Tokens, group_id \in Groups, start_at \in StartAtInputs :
        \E fault \in CreateFaults(token, group_id, start_at) :
            CreateBegin(token, group_id, start_at, fault)

CreateMemberStep == \E c \in creating : CreateMember(c)

CreateRespondStep == \E c \in creating : CreateRespond(c)

\* create in steps, among other creates and email-link accepts
NextFanOut ==
    \/ CreateBeginStep
    \/ CreateMemberStep
    \/ CreateRespondStep
    \/ AcceptLinkStep

SpecFanOut == Init /\ [][NextFanOut]_vars

\* the invitation of the member the loop is at has been dispatched and the
\* insert of the invite row is still to come
Mailed(c) ==
    /\ c.members # <<>>
    /\ c.sent # <<>>
    /\ c.sent[Len(c.sent)].kind = "invitation"
    /\ c.sent[Len(c.sent)].to = Head(c.members)

\* one iteration of the member loop up to and including the email: on the
\* invitation branch the iteration goes on to the insert, on the others
\* (no email address, conflict) it is over
CreateDispatch(c) ==
    LET acc == ProcessMember(Head(c.members), c.s, sessions, c.fault,
                             [invites |-> session_invites, sent |-> c.sent])
        invited == /\ Len(acc.sent) > Len(c.sent)
                   /\ acc.sent[Len(acc.sent)].kind = "invitation"
    IN
    /\ c \in creating
    /\ c.members # <<>>
    /\ ~Mailed(c)
    /\ creating' = (creating \ {c}) \cup
            { [c EXCEPT !.members = IF invited THEN @ ELSE Tail(@),
                        !.sent = acc.sent] }
    /\ UNCHANGED <<now, nextId, sessions, session_invites, group_members,
                   profiles, inflight, group_invitations, handling, served, resp>>

\* the rest of the iteration: session_invites.insert({ ..., status: "pending" })
CreateInsert(c) ==
    LET m == Head(c.members) IN
    /\ c \in creating
    /\ Mailed(c)
    /\ session_invites' =
            IF c.fault.kind = "invite_insert" /\ c.fault.target = m
            THEN session_invites
            ELSE Insert(session_invites, Invite(c.s.id, m, "pending", NULL))
    /\ creating' = (creating \ {c}) \cup { [c EXCEPT !.members = Tail(@)] }
    /\ UNCHANGED <<now, nextId, sessions, group_members, profiles, inflight,
                   group_invitations, handling, served, resp>>

CreateDispatchStep == \E c \in creating : CreateDispatch(c)

CreateInsertStep == \E c \in creating : CreateInsert(c)

\* a respond about the session of a create in progress
RespondToCreatingStep ==
    \E c \in creating, token \in Users, status \in {"accepted", "declined"} :
        Respond(token, c.s.group_id, c.s.id, status, NoFault)

\* create with the email and the insert of each member as separate steps,
\* among email links and responds
NextInviteRace ==
    \/ CreateBeginStep
    \/ CreateDispatchStep
    \/ CreateInsertStep
    \/ CreateRespondStep
    \/ AcceptLinkStep
    \/ DeclineLinkStep
    \/ RespondToCreatingStep

SpecInviteRace == Init /\ [][NextInviteRace]_vars

(***************************************************************************)
(* PUT /group-invitations/:id                                              *)
(***************************************************************************)
\* ids a request may name: those of the invitations and one no row has
InvitationIds == { i.id : i \in group_invitations } \cup {0}

\* the handler up to the update; code 0: the request goes on to the update
InvitationCheck(token, id, status, fault) ==
    LET auth == getUser(token, fault)
        found == { i \in group_invitations : i.id = id }
        inv == CHOOSE i \in found : TRUE
    IN
    IF auth.threw THEN 500
    ELSE IF auth.user = NoUser THEN 401
    ELSE IF status \notin {"accepted", "declined"} THEN 400
    ELSE IF found = {} \/ fault.kind = "invitation_select" THEN 500
    ELSE IF inv.recipient_id # auth.user THEN 403
    ELSE IF inv.status # "pending" THEN 400
    ELSE 0

\* group_invitations.update({ status }).eq("id", id)
UpdateInvitation(invitations, id, status) ==
    { IF i.id = id THEN [i EXCEPT !.status = status] ELSE i : i \in invitations }

\* variant: accepting adds no membership row
UpsertMemberNever(members, group_id, user_id, failed) == members

\* group_members.upsert([{ group_id, user_id, role }], { onConflict }); its
\* result is not looked at
UpsertMember(members, group_id, user_id, failed) ==
    IF failed THEN members
    ELSE members \cup { [group_id |-> group_id, user_id |-> user_id] }

\* a rejected request on an invitation
RejectInvitation(user, id, code) ==
    /\ served < MaxRequests
    /\ served' = served + 1
    /\ resp' = Answer("invitation", user, code, id, <<>>)
    /\ UNCHANGED <<now, nextId, sessions, session_invites, group_members, profiles,
                   inflight, creating, group_invitations, handling>>

\* the handler up to the read of the invitation: a request that passes the
\* checks is in flight, holding the group of the row it read
PutInvitationBegin(token, id, status, fault) ==
    LET code == InvitationCheck(token, id, status, fault)
        user == getUser(token, fault).user
    IN
    IF code # 0 THEN RejectInvitation(user, id, code)
    ELSE /\ served < MaxRequests
         /\ served' = served + 1
         /\ handling' = handling \cup
                { [user |-> user, id |-> id, status |-> status,
                   group_id |-> (CHOOSE i \in group_invitations : i.id = id).group_id] }
         /\ UNCHANGED <<now, nextId, sessions, session_invites, group_members,
                        profiles, inflight, creating, group_invitations, resp>>

\* the update of the invitation, the upsert of the membership and the answer
PutInvitationFinish(h, fault) ==
    /\ h \in handling
    /\ handling' = handling \ {h}
    /\ IF fault.kind = "invitation_update"
       THEN /\ resp' = Answer("invitation", h.user, 500, h.id, <<>>)
            /\ UNCHANGED <<group_invitations, group_members>>
       ELSE /\ group_invitations' = UpdateInvitation(group_invitations, h.id, h.status)
            /\ group_members' =
                  IF h.status = "accepted"
                  THEN UpsertMember(group_members, h.group_id, h.user,
                                    fault.kind = "member_upsert")
                  ELSE group_members
            /\ resp' = Answer("invitation", h.user, 200, h.id, <<>>)
    /\ UNCHANGED <<now, nextId, sessions, session_invites, profiles, inflight,
                   creating, served>>

InvitationFaults(token, id, status) ==
    IF token \notin Users THEN {NoFault}
    ELSE IF status \notin {"accepted", "declined"} THEN Faults({"verifier"})
    ELSE Faults({"verifier", "invitation_select"})

PutInvitationBeginStep ==
    \E token \in Tokens, id \in InvitationIds, status \in StatusInputs :
        \E fault \in InvitationFaults(token, id, status) :
            PutInvitationBegin(token, id, status, fault)

PutInvitationFinishStep ==
    \E h \in handling, fault \in Faults({"invitation_update", "member_upsert"}) :
        PutInvitationFinish(h, fault)

\* requests on group invitations, interleaved
NextInvitations ==
    \/ PutInvitationBeginStep
    \/ PutInvitationFinishStep

SpecInvitations == Init /\ [][NextInvitations]_vars

\* the second part of the handler with the membership upsert succeeding
PutInvitationCommitStep ==
    \E h \in handling, fault \in Faults({"invitation_update"}) :
        PutInvitationFinish(h, fault)

\* requests on group invitations and listings of the sessions of a group
NextMembership ==
    \/ PutInvitationBeginStep
    \/ PutInvitationCommitStep
    \/ ListStep

SpecMembership == Init /\ [][NextMembership]_vars

(***************************************************************************)
(* Properties.                                                             *)
(***************************************************************************)
Instants == { getTime(d) : d \in DateStrings }

SessionById(sess, sid) == CHOOSE s \in sess : s.id = sid

Exists(sess, sid) == \E s \in sess : s.id = sid

\* the accepted invites of u whose session exists and starts at instant T
BookedAt(invites, sess, u, T) ==
    { i \in invites :
        /\ i.user_id = u
        /\ i.status = "accepted"
        /\ \E x \in sess : x.id = i.session_id /\ getTime(x.start_at) = T }

DoubleBooked(invites, sess, u) ==
    \E T \in Instants : Cardinality(BookedAt(invites, sess, u, T)) > 1

\* C1: with the bearer routes only (create, respond, delete, list), each run
\* to completion, every user has at most one accepted invite per start
\* instant among the sessions that exist.
C1_NoDoubleBookingAuth ==
    \A u \in Users, T \in Instants :
        Cardinality(BookedAt(session_invites, sessions, u, T)) <= 1

\* a respond(accepted) was answered 409 while its caller keeps the accepted
\* invite of another session at that instant
C1_Witness ==
    /\ resp.op = "respond"
    /\ resp.code = 409
    /\ \E i \in session_invites, x \in sessions, y \in sessions :
          /\ i.user_id = resp.user /\ i.status = "accepted"
          /\ x.id = i.session_id /\ y.id = resp.sid /\ x.id # y.id
          /\ getTime(x.start_at) = getTime(y.start_at)
          /\ ~\E j \in session_invites :
                 SameKey(j, y.id, resp.user) /\ j.status = "accepted"

\* C2: under every route, the email links included, no user holds two
\* accepted invites whose sessions share the start instant.
C2_NoDoubleBookingAnyRoute ==
    \A i \in session_invites, j \in session_invites :
        ( /\ i.user_id = j.user_id
          /\ i.status = "accepted" /\ j.status = "accepted"
          /\ i.session_id # j.session_id
          /\ Exists(sessions, i.session_id) /\ Exists(sessions, j.session_id) )
        => getTime(SessionById(sessions, i.session_id).start_at)
             # getTime(SessionById(sessions, j.session_id).start_at)

\* C3: with respond in two steps, a user becomes double-booked only by the
\* upsert of an in-flight accept whose conflict read did not yet show the
\* accepted session it now collides with (the read is stale); the witness
\* shows that such a state is reached.
C3_DoubleBookingOnlyByStaleRead ==
    [][ \A u \in Users :
          ( ~DoubleBooked(session_invites, sessions, u)
            /\ DoubleBooked(session_invites', sessions', u) )
          => \E r \in inflight :
                /\ r \notin inflight'
                /\ r.user = u /\ r.status = "accepted"
                /\ \E i \in session_invites :
                      /\ i.user_id = u /\ i.status = "accepted"
                      /\ i.session_id # r.sid
                      /\ Exists(sessions, i.session_id) /\ Exists(sessions, r.sid)
                      /\ getTime(SessionById(sessions, i.session_id).start_at)
                           = getTime(SessionById(sessions, r.sid).start_at)
                      /\ i.session_id \notin { c.id : c \in r.conflicts }
      ]_vars

\* two respond(accepted) requests of one user both passed the conflict check
\* and both upserts landed: the user is double-booked, no email link involved
C3_Witness ==
    /\ inflight = {}
    /\ resp.op = "respond" /\ resp.code = 200
    /\ DoubleBooked(session_invites, sessions, resp.user)

IsMember(g, u) == [group_id |-> g, user_id |-> u] \in group_members

RowsOf(invites, sid, u) == { i \in invites : SameKey(i, sid, u) }

RsvpStatuses == {"accepted", "declined"}

\* number of entries of a sequence that satisfy P
Count(seq, P(_)) == Cardinality({ n \in DOMAIN seq : P(seq[n]) })

\* C4: when a member's respond(S, U, st) has just succeeded, the same call
\* made again succeeds too and leaves exactly one invite row for (S, U), with
\* status st (st accepted or declined).
C4_IdempotentRsvp ==
    \A token \in Users, groupId \in Groups, status \in RsvpStatuses :
        ( /\ resp.op = "respond" /\ resp.code = 200 /\ resp.user = token
          /\ \E i \in RowsOf(session_invites, resp.sid, token) : i.status = status
          /\ IsMember(groupId, token)
          /\ Exists(sessions, resp.sid) )
        => LET again == RespondOutcome(token, groupId, resp.sid, status, NoFault) IN
           /\ again.code = 200
           /\ RowsOf(again.invites, resp.sid, token)
                = { Invite(resp.sid, token, status, now) }

\* faults that stop create before or at the insert of the session
BlockingFaults == {"verifier", "gate", "session_insert"}

NewSession(token, group_id, start_at) ==
    [id |-> nextId, group_id |-> group_id, creator_id |-> token, start_at |-> start_at]

C6_NonMemberCreateForbidden ==
    \A token \in Users, group_id \in Groups, start_at \in StartAtInputs :
        ~IsMember(group_id, token) =>
        \A fault \in {NoFault} \cup
                     { Fault(k, NoUser) : k \in {"session_insert", "members_select"} }
                     \cup MemberFaults({"conflict_select", "creator_select", "email",
                                        "invite_insert"}, Users) :
           LET o == CreateOutcome(token, group_id, start_at, fault) IN
           /\ o.code = 403 /\ o.sid = 0
           /\ o.sent = <<>>
           /\ o.sessions = sessions /\ o.invites = session_invites

\* a create by a user outside the group was answered 403 and no session was
\* added
C6_Witness ==
    /\ resp.op = "create" /\ resp.code = 403
    /\ resp.user \in Users
    /\ \E g \in Groups : ~IsMember(g, resp.user)
    /\ served = 2
    /\ \A x \in sessions : x.id < 3

\* create requests that pass authentication, the gate and validation
ValidStart(start_at) == start_at.kind = "date" /\ getTime(start_at) >= now

EmailFaults == {NoFault} \cup MemberFaults({"email"}, Users)

Conflicting(m, start_at) ==
    BookedAt(session_invites, sessions, m, getTime(start_at)) # {}

HoldsOtherAt(u, sid) ==
    \E i \in BookedAt(session_invites, sessions, u,
                      getTime(SessionById(sessions, sid).start_at)) :
        i.session_id # sid

\* C8 as stated: respond(S, U, accepted) by a member U who holds an accepted
\* invite for another session at S's instant is answered 409, one
\* conflict-alert is dispatched to S's creator, and no invite changes.
C8_AcceptRejectedOnConflict ==
    \A token \in Users, groupId \in Groups :
        \A sid \in { x.id : x \in sessions } :
            (IsMember(groupId, token) /\ HoldsOtherAt(token, sid)) =>
            LET o == RespondOutcome(token, groupId, sid, "accepted", NoFault) IN
            /\ o.code = 409
            /\ o.invites = session_invites
            /\ Len(o.sent) = 1
            /\ o.sent[1].kind = "conflict"
            /\ o.sent[1].to = SessionById(sessions, sid).creator_id

\* C8 amended: the answer is 409 and no invite or session changes; the
\* conflict-alert is dispatched to S's creator exactly when the creator's
\* profile has an email address (whether or not the dispatch succeeds).
C8_AcceptRejectedAlertIfEmail ==
    \A token \in Users, groupId \in Groups :
        \A sid \in { x.id : x \in sessions } :
            (IsMember(groupId, token) /\ HoldsOtherAt(token, sid)) =>
            \A fault \in { NoFault, Fault("email", NoUser), Fault("invite_upsert", NoUser) } :
            LET o == RespondOutcome(token, groupId, sid, "accepted", fault)
                creator == SessionById(sessions, sid).creator_id
            IN
            /\ o.code = 409
            /\ o.invites = session_invites
            /\ o.sessions = sessions
            /\ o.sent = IF profiles[creator]
                        THEN << Mail("conflict", creator, token, fault.kind # "email") >>
                        ELSE <<>>

\* an accept was answered 409 with a conflict-alert to the creator of the
\* session, the caller holding an accepted invite for another session at the
\* same instant
C8_Witness ==
    /\ resp.op = "respond" /\ resp.code = 409
    /\ Exists(sessions, resp.sid)
    /\ HoldsOtherAt(resp.user, resp.sid)
    /\ Len(resp.sent) = 1
    /\ resp.sent[1].to = SessionById(sessions, resp.sid).creator_id
    /\ ~\E i \in RowsOf(session_invites, resp.sid, resp.user) : i.status = "accepted"

\* members create invites: the other members of the group whose email
\* dispatch is attempted (they have an email address and no conflict)
Invited(token, group_id, start_at) ==
    { m \in Users \ {token} :
        IsMember(group_id, m) /\ profiles[m] /\ ~Conflicting(m, start_at) }

\* C9 as stated: when the email dispatch fails for one invited member, create
\* still answers 200, the session is persisted, and every other member of the
\* group without a conflict has a pending invite row and an invitation
\* dispatch attempt.
C9_FailureIsolationEveryMember ==
    \A token \in Users, group_id \in Groups, start_at \in DateStrings :
        (IsMember(group_id, token) /\ ValidStart(start_at)) =>
        \A failing \in Invited(token, group_id, start_at) :
        LET o == CreateOutcome(token, group_id, start_at, Fault("email", failing)) IN
        /\ o.code = 200
        /\ NewSession(token, group_id, start_at) \in o.sessions
        /\ \A m \in Users \ {token, failing} :
              (IsMember(group_id, m) /\ ~Conflicting(m, start_at)) =>
              /\ Invite(nextId, m, "pending", NULL) \in o.invites
              /\ Count(o.sent, LAMBDA e : e.kind = "invitation" /\ e.to = m) = 1

\* C9 amended: the same for every other member without a conflict whose
\* profile has an email address; their invitation is dispatched successfully,
\* and the member whose dispatch failed has a pending invite row too.
C9_FailureIsolation ==
    \A token \in Users, group_id \in Groups, start_at \in DateStrings :
        (IsMember(group_id, token) /\ ValidStart(start_at)) =>
        \A failing \in Invited(token, group_id, start_at) :
        LET o == CreateOutcome(token, group_id, start_at, Fault("email", failing)) IN
        /\ o.code = 200 /\ o.sid = nextId
        /\ o.sessions = sessions \cup {NewSession(token, group_id, start_at)}
        /\ Mail("invitation", failing, failing, FALSE) \in { o.sent[n] : n \in DOMAIN o.sent }
        /\ Invite(nextId, failing, "pending", NULL) \in o.invites
        /\ \A m \in Invited(token, group_id, start_at) \ {failing} :
              /\ Invite(nextId, m, "pending", NULL) \in o.invites
              /\ Count(o.sent, LAMBDA e : e = Mail("invitation", m, m, TRUE)) = 1

\* a create was answered 200 although the invitation of one member failed,
\* and a member processed after that one has an invitation and a pending row
C9_Witness ==
    /\ resp.op = "create" /\ resp.code = 200
    /\ Exists(sessions, resp.sid)
    /\ \E a, b \in DOMAIN resp.sent :
          /\ a < b
          /\ resp.sent[a].kind = "invitation" /\ ~resp.sent[a].ok
          /\ resp.sent[b].kind = "invitation" /\ resp.sent[b].ok
          /\ Invite(resp.sid, resp.sent[a].to, "pending", NULL) \in session_invites
          /\ Invite(resp.sid, resp.sent[b].to, "pending", NULL) \in session_invites

Listed(sess, sid) ==
    \E g \in Groups :
        \E n \in DOMAIN ListSessions(sess, g) : ListSessions(sess, g)[n].id = sid

\* what delete does in the current state
DeleteContract ==
    \A token \in Users, groupId \in Groups :
        \A x \in sessions :
            IsMember(groupId, token) =>
            LET o == DeleteOutcome(token, groupId, x.id, NoFault) IN
            IF x.creator_id = token
            THEN o.code = 200 /\ ~Listed(o.sessions, x.id)
                 /\ o.sessions = sessions \ {x}
            ELSE o.code = 403 /\ o.sessions = sessions /\ Listed(o.sessions, x.id)

\* every listing answered holds rows of existing sessions only
ListShowsExisting ==
    (resp.op = "list" /\ resp.code = 200) =>
        \A n \in DOMAIN resp.sent : resp.sent[n] \in sessions

\* a session row appears only by create, under an id never assigned before
IdsNeverReturn ==
    /\ \A x \in sessions : x.id < nextId
    /\ \A x \in sessions' \ sessions : x.id = nextId /\ nextId' = nextId + 1
    /\ nextId' >= nextId

\* C10: delete of an existing session by a group member who is not its
\* creator is answered 403 and the session stays listed; by its creator it is
\* answered 200, the session is no longer listed, and no later step brings a
\* session with that id back, so no later listing shows it.
C10_CreatorOnlyDeletion ==
    /\ [](DeleteContract /\ ListShowsExisting)
    /\ [][IdsNeverReturn]_vars

\* a listing was answered after a session had been deleted
C10_Witness ==
    /\ resp.op = "list" /\ resp.code = 200
    /\ \E id \in 1..(nextId - 1) :
          /\ ~Exists(sessions, id)
          /\ \A n \in DOMAIN resp.sent : resp.sent[n].id # id
    /\ resp.sent # <<>>

\* C11: in every reachable state, a respond or a delete on an existing session
\* is answered 200 only when the caller is a member of the group that owns
\* the session, whatever group the URL names.
C11_GroupScoping ==
    \A token \in Users, groupId \in Groups :
        \A x \in sessions :
            ( \/ \E status \in RsvpStatuses :
                    RespondOutcome(token, groupId, x.id, status, NoFault).code = 200
              \/ DeleteOutcome(token, groupId, x.id, NoFault).code = 200 )
            => IsMember(x.group_id, token)

\* C12: no step changes the status of an invite that is accepted or declined:
\* whatever respond or an email link does, the row of an answered (session,
\* user) pair keeps its status.
C12_InviteStateMachine ==
    [][ \A i \in session_invites :
            i.status # "pending" =>
            \A j \in session_invites' :
                SameKey(j, i.session_id, i.user_id) => j.status = i.status
      ]_vars

BadCredentials == Tokens \ Users

\* C14: in every reachable state, each bearer route called with a missing,
\* invalid or expired credential is answered 401 and writes nothing, the
\* verifier itself not failing.
C14_BadCredentialIs401 ==
    \A token \in BadCredentials, g \in Groups :
        LET answers ==
              { CreateOutcome(token, g, start_at, NoFault) : start_at \in StartAtInputs }
              \cup { RespondOutcome(token, g, sid, status, NoFault) :
                       sid \in SessionIds, status \in StatusInputs }
              \cup { DeleteOutcome(token, g, sid, NoFault) : sid \in SessionIds }
              \cup { ListOutcome(token, g, NoFault) }
        IN \A o \in answers :
              /\ o.code = 401
              /\ o.sessions = sessions /\ o.invites = session_invites

\* the status codes of a rejected request
Rejections == {400, 401, 403, 404, 409}

\* C15: every step in which a create, respond or delete request is answered
\* 400, 401, 403, 404 or 409 leaves sessions and session_invites as they were.
C15_RejectionWritesNothing ==
    [][ ( /\ served' = served + 1
          /\ resp'.op \in {"create", "respond", "delete"}
          /\ resp'.code \in Rejections )
        => (sessions' = sessions /\ session_invites' = session_invites)
      ]_vars

\* a delete by a member who is not the creator was answered 403 and the
\* session is in the table
C15_Witness ==
    /\ resp.op = "delete" /\ resp.code = 403
    /\ Exists(sessions, resp.sid)
    /\ SessionById(sessions, resp.sid).creator_id # resp.user
    /\ \E g \in Groups : IsMember(g, resp.user)

\* C16: in every reachable state, a respond or a delete by a member of the
\* group on a session id no row has is answered 404 and changes no row.
C16_MissingSessionIs404 ==
    \A token \in Users, groupId \in Groups :
        \A sid \in { n \in SessionIds : ~Exists(sessions, n) } :
            IsMember(groupId, token) =>
            LET answers ==
                  { RespondOutcome(token, groupId, sid, status, NoFault) :
                      status \in RsvpStatuses }
                  \cup { DeleteOutcome(token, groupId, sid, NoFault) }
            IN \A o \in answers :
                  /\ o.code = 404
                  /\ o.sessions = sessions /\ o.invites = session_invites

\* the members of a group
MembersOf(g) == { u \in Users : IsMember(g, u) }

\* the calls create makes per member, any of which may fail
PerMemberCalls == {"conflict_select", "creator_select", "email", "invite_insert"}

\* C17: in every reachable state, create with a valid start_at in a group
\* whose only member is the creator is answered 200 with the new session,
\* dispatches nothing, writes no invite row, and makes none of the per-member
\* calls: a failure of any of them changes nothing.
C17_EmptyMembersFastPath ==
    \A token \in Users, group_id \in Groups, start_at \in DateStrings :
        (MembersOf(group_id) = {token} /\ ValidStart(start_at)) =>
        \A fault \in {NoFault} \cup MemberFaults(PerMemberCalls, Users) :
           LET o == CreateOutcome(token, group_id, start_at, fault) IN
           /\ o.code = 200 /\ o.sid = nextId
           /\ o.sessions = sessions \cup {NewSession(token, group_id, start_at)}
           /\ o.sent = <<>>
           /\ o.invites = session_invites

\* a create in a group of one was answered 200: the session is stored,
\* nothing was sent and the session has no invite row
C17_Witness ==
    /\ resp.op = "create" /\ resp.code = 200
    /\ Exists(sessions, resp.sid)
    /\ MembersOf(SessionById(sessions, resp.sid).group_id) = {resp.user}
    /\ resp.sent = <<>>
    /\ \A i \in session_invites : i.session_id # resp.sid

\* what a failed insert of the session leaves behind
FailedInsertLeavesNothing ==
    \A token \in Users, group_id \in Groups, start_at \in DateStrings :
        (IsMember(group_id, token) /\ ValidStart(start_at)) =>
        LET o == CreateOutcome(token, group_id, start_at, Fault("session_insert", NoUser)) IN
        /\ o.code = 500
        /\ o.sent = <<>>
        /\ o.sessions = sessions /\ o.invites = session_invites

\* a step of a member loop writes rows and sends mails for a stored session
FanOutAfterInsert ==
    /\ \A i \in session_invites' \ session_invites :
          i.status = "pending" => Exists(sessions, i.session_id)
    /\ \A c \in creating, d \in creating' :
          (d.s = c.s /\ d.sent # c.sent) => c.s \in sessions

Answered(sid) == resp.op = "create" /\ resp.code = 200 /\ resp.sid = sid

\* C19 as stated: the response to a create does not wait for its
\* notifications: whenever every member of a create has been processed, the
\* response for its session has been emitted already.
C19_ResponseDoesNotWait ==
    \A c \in creating : c.members = <<>> => Answered(c.s.id)

\* the step that emits the 200 of a create in progress finds no member of it
\* outstanding and reports every dispatch of the loop
AnswerAfterLoop ==
    \A c \in creating :
        (c \notin creating' /\ resp'.op = "create" /\ resp'.sid = c.s.id)
        => (c.members = <<>> /\ resp'.code = 200 /\ resp'.sent = c.sent)

\* C19 amended: the response to a create waits for the member loop: while a
\* member of a create is still to be processed no response for its session
\* has been emitted, and the 200 is emitted only by a step that finds every
\* member processed.
C19_ResponseWaitsForFanOut ==
    /\ [](\A c \in creating : ~Answered(c.s.id))
    /\ [][AnswerAfterLoop]_vars

\* the 200 of a create was emitted after two members had been sent their
\* invitation, none being outstanding
C19_Witness ==
    /\ creating = {}
    /\ resp.op = "create" /\ resp.code = 200
    /\ Len(resp.sent) = 2
    /\ \A n \in DOMAIN resp.sent :
          Invite(resp.sid, resp.sent[n].to, "pending", NULL) \in session_invites

\* C20: every step that changes a group invitation changes only its status,
\* from pending to accepted or declined, for a request of its recipient; an
\* invitation that is accepted or declined is the same in every later state,
\* and a request that finds it handled is answered 400 and adds no member.
C20_HandledAtMostOnce ==
    [][ /\ \A i \in group_invitations :
              i \notin group_invitations' =>
              /\ i.status = "pending"
              /\ resp'.op = "invitation" /\ resp'.code = 200
              /\ resp'.user = i.recipient_id /\ resp'.sid = i.id
              /\ \E j \in group_invitations' :
                    /\ j = [i EXCEPT !.status = j.status]
                    /\ j.status \in RsvpStatuses
        /\ \A i \in group_invitations' : \E j \in group_invitations : j.id = i.id
      ]_vars

\* the membership row an invitation request is about
MemberRow(h) == [group_id |-> h.group_id, user_id |-> h.user]

\* the request whose answer a step emits
Finished == handling \ handling'

\* a step changes group_members only by answering 200 to the accept of an
\* invitation, adding the row of the recipient; a decline adds none
MembershipFollowsAccept ==
    /\ \A h \in Finished :
          resp'.code = 200 =>
          group_members' = IF h.status = "accepted"
                           THEN group_members \cup {MemberRow(h)}
                           ELSE group_members
    /\ group_members' # group_members =>
          \E h \in Finished : h.status = "accepted" /\ resp'.code = 200

\* after the 200 of an accept the recipient passes the membership gate of
\* the session routes of the group
AcceptedPassesGate ==
    \A i \in group_invitations :
        ( /\ resp.op = "invitation" /\ resp.code = 200
          /\ resp.sid = i.id /\ i.status = "accepted" )
        => /\ IsMember(i.group_id, resp.user)
           /\ Cardinality({ m \in group_members :
                              m = [group_id |-> i.group_id, user_id |-> resp.user] }) = 1
           /\ ListOutcome(resp.user, i.group_id, NoFault).code = 200
           /\ \A start_at \in StartAtInputs :
                 CreateOutcome(resp.user, i.group_id, start_at, NoFault).code # 403
           /\ \A sid \in SessionIds :
                 RespondOutcome(resp.user, i.group_id, sid, "declined", NoFault).code # 403

C22_ConflictIsExactInstant ==
    \A u \in Users :
        /\ \A T \in Instants :
              CreateHasConflict(sessions, session_invites, u, T, FALSE)
              <=> BookedAt(session_invites, sessions, u, T) # {}
        /\ \A x \in sessions :
              RespondConflict(RespondRead(sessions, session_invites, u), x)
              <=> BookedAt(session_invites, sessions, u, getTime(x.start_at)) # {}

\* a user holds an accepted invite at one instant and an invite that is not
\* accepted: the test is true at that instant and false at another instant
\* at which a session is stored
C22_Witness ==
    \E u \in Users, T \in Instants :
        /\ CreateHasConflict(sessions, session_invites, u, T, FALSE)
        /\ \E i \in session_invites : i.user_id = u /\ i.status # "accepted"
        /\ \E x \in sessions :
              /\ getTime(x.start_at) # T
              /\ ~RespondConflict(RespondRead(sessions, session_invites, u), x)

\* C23: in every reachable state, an email-link accept (resp. decline) for
\* any session id and user is answered 200 and leaves exactly one row for the
\* pair, accepted (resp. declined) at the time of the call, every other
\* invite and every session being as before; when the store write fails it is
\* answered 500 and nothing changes.
C23_LinkUpsertsOnePair ==
    \A sid \in LinkSessionIds, uid \in Users, status \in RsvpStatuses :
        LET ok == LinkOutcome(sid, uid, status, NoFault)
            ko == LinkOutcome(sid, uid, status, Fault("invite_upsert", NoUser))
        IN
        /\ ok.code = 200
        /\ ok.sessions = sessions
        /\ RowsOf(ok.invites, sid, uid) = { Invite(sid, uid, status, now) }
        /\ ok.invites \ RowsOf(ok.invites, sid, uid)
             = session_invites \ RowsOf(session_invites, sid, uid)
        /\ ko.code = 500
        /\ ko.sessions = sessions /\ ko.invites = session_invites

\* an email-link accept was answered 200 for a user who holds an accepted
\* invite for another session at the same instant
C23_Witness ==
    /\ resp.op = "accept_link" /\ resp.code = 200
    /\ Exists(sessions, resp.sid)
    /\ HoldsOtherAt(resp.user, resp.sid)
    /\ RowsOf(session_invites, resp.sid, resp.user)
         = { Invite(resp.sid, resp.user, "accepted", now) }

RespondedIffAnswered ==
    \A i \in session_invites :
        i.responded_at # NULL <=> i.status \in RsvpStatuses

\* a row a step writes: pending without responded_at, accepted or declined
\* with the time of the step
WrittenWithTimeOfCall ==
    \A i \in session_invites' \ session_invites :
        IF i.status = "pending" THEN i.responded_at = NULL
        ELSE i.status \in RsvpStatuses /\ i.responded_at = now

\* C25: in every reachable state an invite has responded_at set if and only
\* if its status is accepted or declined; create writes pending rows without
\* it, and every respond or email link that writes accepted or declined sets
\* it to the time of that call.
C25_RespondedAtTracksStatus ==
    /\ []RespondedIffAnswered
    /\ [][WrittenWithTimeOfCall]_vars

\* after the clock advanced a respond was answered 200: its row carries the
\* new time, and a pending row without responded_at is stored beside it
C25_Witness ==
    /\ resp.op = "respond" /\ resp.code = 200
    /\ now > 0
    /\ \E i \in RowsOf(session_invites, resp.sid, resp.user) : i.responded_at = now
    /\ \E j \in session_invites : j.status = "pending" /\ j.responded_at = NULL

\* C26: within one create each non-creator member is sent at most one
\* invitation and the creator at most one conflict alert per conflicting
\* member, nothing else is sent; within one respond at most one conflict alert
\* is sent; a dispatch that failed is not followed by another for the same
\* member.
C26_AtMostOnceDelivery ==
    /\ \A token \in Tokens, group_id \in Groups, start_at \in StartAtInputs :
          \A fault \in CreateFaults(token, group_id, start_at) :
          LET o == CreateOutcome(token, group_id, start_at, fault) IN
          /\ \A n \in DOMAIN o.sent :
                \/ o.sent[n].kind = "invitation" /\ o.sent[n].to = o.sent[n].about
                                                 /\ o.sent[n].to # token
                \/ o.sent[n].kind = "conflict" /\ o.sent[n].to = token
                                               /\ o.sent[n].about # token
          /\ \A m \in Users :
                Count(o.sent, LAMBDA e : e.about = m) <= 1
    /\ \A token \in Tokens, groupId \in Groups, sessionId \in SessionIds,
          status \in StatusInputs :
          \A fault \in RespondFaults(token, groupId, sessionId, status) :
          LET o == RespondOutcome(token, groupId, sessionId, status, fault) IN
          /\ Len(o.sent) <= 1
          /\ \A n \in DOMAIN o.sent : o.sent[n].kind = "conflict"

\* a create was answered 200 with a dispatch that failed, which is the only
\* message about that member, and with a message about another member
C26_Witness ==
    /\ resp.op = "create" /\ resp.code = 200
    /\ \E a, b \in DOMAIN resp.sent :
          /\ ~resp.sent[a].ok
          /\ resp.sent[a].about # resp.sent[b].about
          /\ Count(resp.sent, LAMBDA e : e.about = resp.sent[a].about) = 1

\* the failures a create can meet once the session is inserted
AfterInsertFaults ==
    {NoFault, Fault("members_select", NoUser)}
        \cup MemberFaults(PerMemberCalls, Users)

AnswerKept ==
    \A i \in session_invites :
        i.status \in RsvpStatuses =>
        /\ RowsOf(session_invites', i.session_id, i.user_id) # {}
        /\ \A j \in RowsOf(session_invites', i.session_id, i.user_id) :
              j.status \in RsvpStatuses

\* C28: an email-link or respond RSVP for (session, member) that lands after
\* create dispatched the invitation and before create writes the pending row
\* is kept: no step of a create, its insert included, turns an accepted or
\* declined invite into a pending one.
C28_PendingNeverDowngrades == [][AnswerKept]_vars

\* a create in progress has dispatched the invitation of a member and not yet
\* inserted the row, and the invite of that member for the new session is
\* already answered
C28_Witness ==
    \E c \in creating :
        /\ Mailed(c)
        /\ \E i \in RowsOf(session_invites, c.s.id, Head(c.members)) :
              i.status \in RsvpStatuses

\* u is not held back at instant T: accepting any session of u's groups that
\* starts at T is answered 200, and a create at T by another member of a group
\* of u sends u the invitation, writes u's pending row and reports no conflict
FreeAt(u, T) ==
    /\ \A x \in sessions :
          (getTime(x.start_at) = T /\ IsMember(x.group_id, u)) =>
          RespondOutcome(u, x.group_id, x.id, "accepted", NoFault).code = 200
    /\ \A creator \in Users \ {u}, g \in Groups, start_at \in DateStrings :
          ( /\ getTime(start_at) = T /\ ValidStart(start_at)
            /\ IsMember(g, creator) /\ IsMember(g, u) /\ profiles[u] ) =>
          LET o == CreateOutcome(creator, g, start_at, NoFault) IN
          /\ Count(o.sent, LAMBDA e : e = Mail("invitation", u, u, TRUE)) = 1
          /\ Count(o.sent, LAMBDA e : e.kind = "conflict" /\ e.about = u) = 0
          /\ Invite(nextId, u, "pending", NULL) \in o.invites

\* a delete answered 200 removes the session row and nothing else, and leaves
\* every user who had accepted the session, and holds no other accepted
\* session at its start instant, free at that instant
DeleteFrees ==
    (resp'.op = "delete" /\ resp'.code = 200 /\ served' = served + 1) =>
    /\ Exists(sessions, resp'.sid)
    /\ LET S == SessionById(sessions, resp'.sid) IN
       /\ sessions' = sessions \ {S}
       /\ session_invites' = session_invites
       /\ \A u \in Users, T \in Instants :
             ( /\ T = getTime(S.start_at)
               /\ \E i \in RowsOf(session_invites, S.id, u) : i.status = "accepted"
               /\ BookedAt(session_invites', sessions', u, T) = {} )
             => FreeAt(u, T)'

\* C29: delete removes only the session row; once a session S that user U had
\* accepted is deleted, U's invite for S no longer counts in the conflict
\* detection of respond and of create: U can accept another session at S's
\* start instant without a 409 and is invited to new sessions at that instant.
C29_DeletedStopsBlocking == [][DeleteFrees]_vars

\* session 1 is deleted, the accepted invite of a user for it is still
\* stored, and session 2, which starts at the same instant, is there for that
\* user to accept
C29_Witness ==
    /\ resp.op = "delete" /\ resp.code = 200 /\ resp.sid = 1
    /\ ~Exists(sessions, 1)
    /\ \E x \in sessions :
          /\ x.id = 2 /\ getTime(x.start_at) = getTime(Date(1, 0))
          /\ \E i \in RowsOf(session_invites, 1, "u2") : i.status = "accepted"
          /\ RespondOutcome("u2", x.group_id, 2, "accepted", NoFault).code = 200

\* C30: under any interleaving of two concurrent requests of the recipient on
\* one pending group invitation, once no request is in flight the recipient is
\* a member of the group because of the invitation only if the invitation is
\* accepted: a declined invitation has added no membership row. (No recipient
\* of an invitation is a member of its group to begin with.)
C30_MemberOnlyIfAccepted ==
    handling = {} =>
    \A i \in group_invitations :
        IsMember(i.group_id, i.recipient_id) => i.status = "accepted"
====
